---- MODULE Spec2Model ----
(***************************************************************************)
(* Model of the call-ended dedup guard (package cmd, restServer, the POST    *)
(* /call-ended handler) and                                                 *)
(* of the webhook delivery client (infrastructure/whatsapp/webhook.go,      *)
(* SubmitWebhook).                                                          *)
(*                                                                          *)
(* Spec        : concurrent /call-ended requests, the process-wide          *)
(*               callWebhookCache, the per-insertion eviction goroutines    *)
(*               and the detached webhook goroutines.                       *)
(* GuardSpec   : the same with no subscriber URL configured.                *)
(* KeySpec     : GuardSpec for requests whose call_id or Phone holds ":".   *)
(* SubmitSpec  : one SubmitWebhook call, statement by statement.            *)
(* ForwardSpec : one forwardToWebhook call: createPayload, with             *)
(*               determineMessageType, then one SubmitWebhook per URL.      *)
(***************************************************************************)
EXTENDS Integers, Sequences, FiniteSets, TLC

(***************************************************************************)
(* Bounds of the model and constants of the program                         *)
(***************************************************************************)
\* number of /call-ended requests the model lets arrive
NumRequests == 3

\* var maxAttempts = 5
maxAttempts == 5

\* var sleepDuration = 1 * time.Second; sleeps are counted in seconds
initialSleepDuration == 1

Requests == 1..NumRequests

\* request bodies: the call_id and Phone fields of the JSON body
CallIDs == {"", "ABC", "XYZ"}
Phones == {"", "+1555", "@"}

\* a body the BodyParser rejects leaves the request struct zero-valued
Bodies ==
    {[ok |-> FALSE, CallID |-> "", Phone |-> ""]}
        \cup {[ok |-> TRUE, CallID |-> c, Phone |-> p] : c \in CallIDs, p \in Phones}

\* request bodies whose call_id or Phone holds the ":" the cache key is
\* joined with: a call_id is any string of the caller, and a Phone may name
\* a device of a user ("user:device@server")
KeyCallIDs == {"ABC", "ABC:1555"}
KeyPhones == {"3@s.whatsapp.net", "1555:3@s.whatsapp.net"}

KeyBodies == {[ok |-> TRUE, CallID |-> c, Phone |-> p] : c \in KeyCallIDs, p \in KeyPhones}

\* config.WhatsappWebhook: the configured subscriber URLs
WebhookConfigs == {<<>>, <<"u1">>, <<"u1", "u2">>}

\* what one client.Do can produce: an HTTP response (err == nil) with some
\* status code, or a transport-level error. wrote tells whether the
\* transport read the request body: it has when a response arrives, it has
\* not when the connection is refused, and a timeout may come before or
\* after. "body length" is the error of a client.Do whose request body is
\* shorter than its ContentLength.
StatusCodes == {200, 404, 500}
NetworkErrors == {"timeout", "refused"}
TransportErrors == NetworkErrors \cup {"body length"}
Outcomes ==
    {[err |-> "nil", status |-> s, wrote |-> TRUE] : s \in StatusCodes}
        \cup {[err |-> "timeout", status |-> 0, wrote |-> w] : w \in BOOLEAN}
        \cup {[err |-> "refused", status |-> 0, wrote |-> FALSE]}

\* failures of the statements before the retry loop
Preparations == {"ok", "marshal", "request", "signature"}

(***************************************************************************)
(* SubmitWebhook                                                            *)
(***************************************************************************)
\* the local state of one SubmitWebhook call; attempts, sleeps and events
\* record what the call has done so far, inflight counts the requests handed
\* to client.Do that have not come back. body is the bytes.Buffer that
\* `http.NewRequest(http.MethodPost, url, bytes.NewBuffer(postBody))` makes
\* the body of the one req every attempt is made with: "full" until a
\* transport has read it, "drained" from then on.
SubmitStart ==
    [pc |-> "prepare", attempt |-> 0, sleepDuration |-> initialSleepDuration,
     err |-> "nil", result |-> "running", reported |-> 0, inflight |-> 0,
     attempts |-> 0, sleeps |-> <<>>, events |-> <<>>, body |-> "full",
     last |-> [err |-> "nil", status |-> 0, wrote |-> FALSE]]

\* json.Marshal, http.NewRequest, getMessageDigestOrSignature: each may fail
\* and make SubmitWebhook return a WebhookError before any attempt
Prepare(st, prep) ==
    IF prep = "ok"
    THEN [st EXCEPT !.pc = "attempt"]
    ELSE [st EXCEPT !.pc = "return", !.err = prep, !.result = "WebhookError"]

\* the err of `_, err = client.Do(req)`: nil whenever a response arrives
ClientDoErr_StatusChecked(out) ==
    IF out.err = "nil" /\ out.status >= 300 THEN "bad status" ELSE out.err

ClientDoErr(out) == out.err

\* the loop condition `attempt < maxAttempts`
LoopCondition_OffByOne(attempt) == attempt <= maxAttempts

LoopCondition(attempt) == attempt < maxAttempts

\* sleepDuration *= 2
NextSleepDuration_Linear(d) == d + 1

NextSleepDuration(d) == d * 2

\* `client.Do(req)` is called: the request is in flight and the caller is
\* blocked until the response, a transport error or the client's timeout
ClientDo_NoWait(st) == [st EXCEPT !.pc = "sleep", !.inflight = @ + 1]

ClientDo(st) == [st EXCEPT !.pc = "do", !.inflight = @ + 1]

\* what client.Do(req) makes of the outcome the network has for it: with req's
\* buffer drained the transport finds a body shorter than ContentLength and
\* fails before anything is sent; client.Do does not rewind the body of the
\* request it is given
RoundTrip(st, out) ==
    IF st.body = "drained"
    THEN [err |-> "body length", status |-> 0, wrote |-> FALSE]
    ELSE out

\* client.Do returns: `if _, err = client.Do(req); err == nil { return nil }`
Attempt(st, outcome) ==
    LET out == RoundTrip(st, outcome)
        e == ClientDoErr(out)
        made == [st EXCEPT !.attempts = @ + 1,
                           !.inflight = @ - 1,
                           !.events = Append(@, [ev |-> "attempt", n |-> st.attempt + 1,
                                                 out |-> out, body |-> st.body]),
                           !.last = out,
                           !.body = IF out.wrote THEN "drained" ELSE @,
                           !.err = e]
    IN  IF e = "nil"
        THEN [made EXCEPT !.pc = "return", !.result = "nil"]
        ELSE [made EXCEPT !.pc = "sleep"]

\* `time.Sleep(sleepDuration); sleepDuration *= 2; attempt++` and the loop
\* test; when the loop ends: WebhookError("Failed after %d attempts: %v")
Sleep(st) ==
    LET slept == [st EXCEPT !.sleeps = Append(@, st.sleepDuration),
                            !.events = Append(@, [ev |-> "sleep", n |-> st.sleepDuration,
                                                  out |-> st.last, body |-> st.body]),
                            !.sleepDuration = NextSleepDuration(@),
                            !.attempt = @ + 1]
    IN  IF LoopCondition(slept.attempt)
        THEN [slept EXCEPT !.pc = "attempt"]
        ELSE [slept EXCEPT !.pc = "return", !.result = "WebhookError",
                           !.reported = slept.attempt]

\* a whole SubmitWebhook call against the outcomes its attempts meet
RECURSIVE RunSubmit(_, _, _)
RunSubmit(st, prep, outs) ==
    CASE st.pc = "prepare" -> RunSubmit(Prepare(st, prep), prep, outs)
      [] st.pc = "attempt" -> RunSubmit(ClientDo(st), prep, outs)
      [] st.pc = "do" -> RunSubmit(Attempt(st, outs[st.attempts + 1]), prep, outs)
      [] st.pc = "sleep" -> RunSubmit(Sleep(st), prep, outs)
      [] OTHER -> st

SubmitWebhook(prep, outs) == RunSubmit(SubmitStart, prep, outs)

(***************************************************************************)
(* Inbound events                                                           *)
(***************************************************************************)
\* how many fields of evt.Message an event of the model has populated
MaxPopulated == 2

\* texts are sequences of characters: "hi", "http:// x", "http://a" and
\* "check https://example.com now"
PlainText == <<"h", "i">>

BrokenUrlText == <<"h", "t", "t", "p", ":", "/", "/", " ", "x">>

HttpText == <<"h", "t", "t", "p", ":", "/", "/", "a">>

HttpsText ==
    <<"c", "h", "e", "c", "k", " ", "h", "t", "t", "p", "s", ":", "/", "/",
      "e", "x", "a", "m", "p", "l", "e", ".", "c", "o", "m", " ", "n", "o", "w">>

Texts == {PlainText, BrokenUrlText, HttpText, HttpsText}

\* the fields of evt.Message that determineMessageType and createPayload test
MessageFields ==
    {"audioMessage", "imageMessage", "videoMessage", "documentMessage",
     "stickerMessage", "contactMessage", "locationMessage", "liveLocationMessage",
     "listMessage", "orderMessage", "paymentInviteMessage",
     "pollCreationMessageV3", "pollCreationMessageV4", "pollCreationMessageV5",
     "pollUpdateMessage", "reactionMessage", "conversation", "extendedTextMessage"}

RECURSIVE SubsetsUpTo(_, _)
SubsetsUpTo(S, n) ==
    IF n = 0
    THEN {{}}
    ELSE LET smaller == SubsetsUpTo(S, n - 1)
         IN  smaller \cup {T \cup {x} : T \in smaller, x \in S}

\* *events.Message: Message is a protobuf struct whose fields are populated
\* independently of each other; PTT, Conversation, Text, Title, Description
\* are zero unless their field is populated. Type is evt.Info.Type, Marker is
\* whether fmt.Sprintf("%+v", evt.Message) contains "contactsArrayMessage"
\* (the contactsArrayMessage field is populated, or a string of the message
\* holds that word).
EventsOf(m) ==
    {[Message |-> m, PTT |-> ptt, Conversation |-> c, Text |-> t, Title |-> ti,
      Description |-> d, Type |-> ty, Marker |-> mk] :
        ptt \in (IF "audioMessage" \in m THEN BOOLEAN ELSE {FALSE}),
        c \in (IF "conversation" \in m THEN Texts ELSE {<<>>}),
        t \in (IF "extendedTextMessage" \in m THEN Texts ELSE {<<>>}),
        ti \in (IF "extendedTextMessage" \in m THEN {"", "Title"} ELSE {""}),
        d \in (IF "extendedTextMessage" \in m THEN {"", "Description"} ELSE {""}),
        ty \in {"text", "media"}, mk \in BOOLEAN}

Events == UNION {EventsOf(m) : m \in SubsetsUpTo(MessageFields, MaxPopulated)}

\* the getters of evt.Message
Has(evt, field) == field \in evt.Message

GetConversation(evt) == evt.Conversation

\* the collaborators createPayload calls: whether types.ParseJID accepts
\* evt.Info.Chat.String(), and the media field, if any, whose ExtractMedia
\* fails. Only the calls createPayload makes for the event are drawn.
MediaFields ==
    {"audioMessage", "documentMessage", "imageMessage", "stickerMessage", "videoMessage"}

\* evt.Info.SourceString(), and the results of GetGroupName(ctx, jid)
Sources == {"", "5511@s.whatsapp.net"}

NoLookup == [name |-> "", err |-> "nil"]

GroupLookups ==
    {NoLookup, [name |-> "Family", err |-> "nil"], [name |-> "", err |-> "not found"]}

\* the sender, whether evt.Info.Chat.String() contains "@g.us", and what
\* GetGroupName returns; it is called for a group chat only
Infos ==
    {[Source |-> s, IsGroup |-> FALSE, lookup |-> NoLookup] : s \in Sources}
    \cup {[Source |-> s, IsGroup |-> TRUE, lookup |-> l] : s \in Sources, l \in GroupLookups}

DefaultInfo == [Source |-> "5511@s.whatsapp.net", IsGroup |-> FALSE, lookup |-> NoLookup]

Env(j, f, info) ==
    [jidOk |-> j, extractFails |-> f, Source |-> info.Source,
     IsGroup |-> info.IsGroup, lookup |-> info.lookup]

\* the sender, the group flag and the lookup are drawn for the calls that
\* return a payload; a call that returns an error discards them
EnvsOf(evt) ==
    {Env(TRUE, "none", info) : info \in Infos}
    \cup {Env(j, f, DefaultInfo) :
            j \in BOOLEAN, f \in {"none"} \cup (evt.Message \cap MediaFields)}

(***************************************************************************)
(* determineMessageType and createPayload                                   *)
(***************************************************************************)
\* \s of the regular expression
IsSpace(c) == c \in {" ", "\t", "\n", "\f", "\r"}

HasAt(text, i, lit) ==
    /\ i + Len(lit) - 1 <= Len(text)
    /\ \A j \in 1..Len(lit) : text[i + j - 1] = lit[j]

\* regexp.MustCompile(`https?://[^\s]+`).MatchString(text)
urlRegex_HttpsOnly(text) ==
    \E i \in 1..Len(text) :
        LET scheme == <<"h", "t", "t", "p", "s", ":", "/", "/">>
        IN  /\ HasAt(text, i, scheme)
            /\ i + Len(scheme) <= Len(text)
            /\ ~IsSpace(text[i + Len(scheme)])

urlRegex(text) ==
    \E i \in 1..Len(text) :
        \E scheme \in {<<"h", "t", "t", "p", ":", "/", "/">>,
                       <<"h", "t", "t", "p", "s", ":", "/", "/">>} :
            /\ HasAt(text, i, scheme)
            /\ i + Len(scheme) <= Len(text)
            /\ ~IsSpace(text[i + Len(scheme)])

\* buildEventMessage(evt): the resolved text body of the event
buildEventMessage(evt) ==
    [ID |-> "ID", QuotedMessage |-> "", RepliedId |-> "",
     Text |-> IF Has(evt, "extendedTextMessage") THEN evt.Text ELSE GetConversation(evt)]

\* evt.Info.Type == "media" &&
\*     strings.Contains(fmt.Sprintf("%+v", evt.Message), "contactsArrayMessage")
MediaWithContactsArray(evt) == evt.Type = "media" /\ evt.Marker

\* the last checks of determineMessageType: text, extended text, "unknown"
textType_NoDefault(evt, text) ==
    IF GetConversation(evt) # <<>> \/ Has(evt, "extendedTextMessage")
    THEN IF urlRegex(text) THEN "link_message" ELSE "text_message"
    ELSE ""

textType(evt, text) ==
    IF GetConversation(evt) # <<>> \/ Has(evt, "extendedTextMessage")
    THEN IF urlRegex(text) THEN "link_message" ELSE "text_message"
    ELSE "unknown"

\* the checks of determineMessageType before the text ones, in their order;
\* "" when none of them matches
fieldType(evt) ==
    IF Has(evt, "audioMessage")
    THEN IF evt.PTT THEN "voice_message" ELSE "audio_message"
    ELSE IF Has(evt, "imageMessage") THEN "image_message"
    ELSE IF Has(evt, "videoMessage") THEN "video_message"
    ELSE IF Has(evt, "documentMessage") THEN "document_message"
    ELSE IF Has(evt, "stickerMessage") THEN "sticker_message"
    ELSE IF Has(evt, "contactMessage") THEN "contact_message"
    ELSE IF MediaWithContactsArray(evt) THEN "contact_message"
    ELSE IF Has(evt, "locationMessage") THEN "location_message"
    ELSE IF Has(evt, "liveLocationMessage") THEN "live_location_message"
    ELSE IF Has(evt, "listMessage") THEN "list_message"
    ELSE IF Has(evt, "orderMessage") THEN "order"
    ELSE IF Has(evt, "paymentInviteMessage") THEN "payment"
    ELSE IF \/ Has(evt, "pollCreationMessageV3")
            \/ Has(evt, "pollCreationMessageV4")
            \/ Has(evt, "pollCreationMessageV5") THEN "poll_message"
    ELSE IF Has(evt, "pollUpdateMessage") THEN "poll_message"
    ELSE IF Has(evt, "reactionMessage") THEN "reaction_message"
    ELSE ""

determineMessageType_TextFirst(evt, text) ==
    IF textType(evt, text) # "unknown" THEN textType(evt, text)
    ELSE IF fieldType(evt) # "" THEN fieldType(evt)
    ELSE "unknown"

determineMessageType(evt, text) ==
    IF fieldType(evt) # "" THEN fieldType(evt) ELSE textType(evt, text)

\* body[key] = value
Put(body, key, value) == (key :> value) @@ body

\* createPayload, the text of messageData: TextMessage, and TitleLink and
\* LinkDescription of an extended text whose text holds a URL
textFields_NoUrlTest(evt, message) ==
    IF Has(evt, "extendedTextMessage")
    THEN LET text == "TextMessage" :> evt.Text
             title == IF evt.Title # "" THEN Put(text, "TitleLink", evt.Title) ELSE text
         IN  IF evt.Description # ""
             THEN Put(title, "LinkDescription", evt.Description)
             ELSE title
    ELSE "TextMessage" :> message.Text

textFields(evt, message) ==
    IF Has(evt, "extendedTextMessage")
    THEN IF urlRegex(evt.Text)
         THEN LET text == "TextMessage" :> evt.Text
                  title == IF evt.Title # "" THEN Put(text, "TitleLink", evt.Title) ELSE text
              IN  IF evt.Description # ""
                  THEN Put(title, "LinkDescription", evt.Description)
                  ELSE title
         ELSE "TextMessage" :> message.Text
    ELSE "TextMessage" :> message.Text

\* createPayload, messageData: ID, MessageOrigin, RepliedId, the text fields
\* and PollUpdate
messageData(evt, message) ==
    LET ids == [ID |-> message.ID, MessageOrigin |-> message.QuotedMessage,
                RepliedId |-> message.RepliedId]
        withText == textFields(evt, message) @@ ids
    IN  IF Has(evt, "pollUpdateMessage")
        THEN Put(withText, "PollUpdate", [PollID |-> "PollID", SelectedOptions |-> <<>>])
        ELSE withText

\* createPayload, body["Type"] and body["contact"]: the result of
\* determineMessageType, then the contact of a contactMessage, then the
\* contacts and the Type of a media message with the contactsArrayMessage word
typeAndContact_MarkerOnly(evt, message) ==
    LET type == "Type" :> determineMessageType(evt, message.Text)
        contact == IF Has(evt, "contactMessage")
                   THEN Put(type, "contact", "contactMessage")
                   ELSE type
    IN  IF evt.Marker
        THEN Put(Put(contact, "contact", "contactsArrayMessage"), "Type", "contact_message")
        ELSE contact

typeAndContact(evt, message) ==
    LET type == "Type" :> determineMessageType(evt, message.Text)
        contact == IF Has(evt, "contactMessage")
                   THEN Put(type, "contact", "contactMessage")
                   ELSE type
    IN  IF MediaWithContactsArray(evt)
        THEN Put(Put(contact, "contact", "contactsArrayMessage"), "Type", "contact_message")
        ELSE contact

\* createPayload, the keys of the populated media and raw fields; the value
\* of a media key is the path ExtractMedia returned
BodyKeys ==
    [audioMessage |-> "audio", documentMessage |-> "document", imageMessage |-> "image",
     listMessage |-> "list", liveLocationMessage |-> "live_location",
     locationMessage |-> "location", orderMessage |-> "order",
     stickerMessage |-> "sticker", videoMessage |-> "video"]

contentKeys_VideoAsImage(evt) ==
    LET fields == evt.Message \cap DOMAIN BodyKeys
        keys == {BodyKeys[f] : f \in fields}
                \cup IF "videoMessage" \in fields THEN {"image"} ELSE {}
    IN  [key \in keys |->
            IF \E f \in fields : BodyKeys[f] = key
            THEN CHOOSE f \in fields : BodyKeys[f] = key
            ELSE "videoMessage"]

contentKeys(evt) ==
    LET fields == evt.Message \cap DOMAIN BodyKeys
    IN  [key \in {BodyKeys[f] : f \in fields} |->
            CHOOSE f \in fields : BodyKeys[f] = key]

\* createPayload, body["SenderNumber"], body["IsGroup"] and body["GroupName"]:
\* the sender when it is not empty, the group flag, and the group name when
\* the lookup of a group chat returned one
infoKeys(env) ==
    LET sender == IF env.Source # "" THEN "SenderNumber" :> env.Source ELSE <<>>
        group == Put(sender, "IsGroup", env.IsGroup)
    IN  IF env.IsGroup /\ env.lookup.err = "nil" /\ env.lookup.name # ""
        THEN Put(group, "GroupName", env.lookup.name)
        ELSE group

\* createPayload(ctx, evt): body is nil when err is not; classified is what
\* determineMessageType returned, "" when createPayload did not get to it.
\* body holds the keys that are set from evt.Message, from the sender and
\* from the chat.
createPayload_LookupFails(evt, env) ==
    LET message == buildEventMessage(evt)
        type == typeAndContact(evt, message)
    IN  IF ~env.jidOk
        THEN [body |-> <<>>, err |-> "Invalid JID", classified |-> ""]
        ELSE IF env.IsGroup /\ env.lookup.err # "nil"
        THEN [body |-> <<>>, err |-> "Failed to get group name", classified |-> ""]
        ELSE IF env.extractFails # "none"
        THEN [body |-> <<>>, err |-> "Failed to download " \o BodyKeys[env.extractFails],
              classified |-> determineMessageType(evt, message.Text)]
        ELSE [body |-> contentKeys(evt) @@ type @@ infoKeys(env)
                        @@ ("message" :> messageData(evt, message)),
              err |-> "nil",
              classified |-> determineMessageType(evt, message.Text)]

createPayload(evt, env) ==
    LET message == buildEventMessage(evt)
        type == typeAndContact(evt, message)
    IN  IF ~env.jidOk
        THEN [body |-> <<>>, err |-> "Invalid JID", classified |-> ""]
        ELSE IF env.extractFails # "none"
        THEN [body |-> <<>>, err |-> "Failed to download " \o BodyKeys[env.extractFails],
              classified |-> determineMessageType(evt, message.Text)]
        ELSE [body |-> contentKeys(evt) @@ type @@ infoKeys(env)
                        @@ ("message" :> messageData(evt, message)),
              err |-> "nil",
              classified |-> determineMessageType(evt, message.Text)]

(***************************************************************************)
(* State                                                                    *)
(***************************************************************************)
VARIABLES
    pc,                 \* where each /call-ended request is
    request,            \* the call_id and Phone of a request that passed validation
    guard,              \* what its LoadOrStore reported
    rejected,           \* what its RejectCall returned
    response,           \* what the handler answered
    callWebhookCache,   \* the keys of the sync.Map; the time.Now() stored with a
                        \* key is never read back
    timer,              \* the eviction goroutine of each request
    sleeping,           \* the requests whose eviction goroutine is inside
                        \* time.Sleep(cacheTTL), in the order they went to sleep
    WhatsappWebhook,    \* config.WhatsappWebhook
    delivery,           \* the webhook goroutine of each request
    submitted,          \* the SubmitWebhook calls it made, with their results
    live,               \* whether the entry a request stored is still in the map
    sw,                 \* the SubmitWebhook call of SubmitSpec
    fw                  \* the forwardToWebhook call of ForwardSpec

vars ==
    <<pc, request, guard, rejected, response, callWebhookCache, timer, sleeping,
      WhatsappWebhook, delivery, submitted, live, sw, fw>>

handlerVars ==
    <<pc, request, guard, rejected, response, callWebhookCache, timer, sleeping,
      WhatsappWebhook, delivery, submitted, live>>

\* cacheKey := request.CallID + ":" + request.Phone
cacheKey(req) == req.CallID \o ":" \o req.Phone

AllKeys == {cacheKey(b) : b \in Bodies}

KeyOf(r) == cacheKey(request[r])

\* whatsapp.ParseJID(request.Phone): its body is not part of the sources
\* modelled here; it fails with an invalid-identity error on malformed input
ParseJIDFails(phone) == phone = "@"

\* callWebhookCache.LoadOrStore(cacheKey, time.Now()): one atomic step that
\* stores the key if it is absent and reports whether it was there
LoadOrStore_StoreOnly(cache, key) ==
    [cache |-> cache \cup {key}, exists |-> FALSE]

LoadOrStore_NeverStores(cache, key) ==
    [cache |-> cache, exists |-> key \in cache]

LoadOrStore_AnyKey(cache, key) ==
    [cache |-> cache \cup {key}, exists |-> cache # {}]

LoadOrStore(cache, key) ==
    [cache |-> cache \cup {key}, exists |-> key \in cache]

\* callWebhookCache.Delete(cacheKey)
Delete_Nothing(cache, key) == cache

Delete(cache, key) == cache \ {key}

\* the entries a Delete of key removes are no longer live
Removed(cache, key) ==
    [q \in Requests |->
        IF KeyOf(q) = key /\ key \notin Delete(cache, key) THEN FALSE ELSE live[q]]

HandlerInit ==
    /\ pc = [r \in Requests |-> "idle"]
    /\ request = [r \in Requests |-> [CallID |-> "", Phone |-> ""]]
    /\ guard = [r \in Requests |-> "none"]
    /\ rejected = [r \in Requests |-> "none"]
    /\ response = [r \in Requests |-> "none"]
    /\ callWebhookCache = {}
    /\ timer = [r \in Requests |-> "none"]
    /\ sleeping = <<>>
    /\ WhatsappWebhook \in WebhookConfigs
    /\ delivery = [r \in Requests |-> "none"]
    /\ submitted = [r \in Requests |-> <<>>]
    /\ live = [r \in Requests |-> FALSE]

\* the local state of one forwardToWebhook call: the event it is given, the
\* collaborators it meets, what createPayload returned and the SubmitWebhook
\* calls it has made
ForwardStart(evt, env) ==
    [pc |-> "createPayload", evt |-> evt, env |-> env, payload |-> <<>>,
     classified |-> "", err |-> "nil", submitted |-> <<>>]

\* no event is being forwarded
NoForward ==
    [ForwardStart(CHOOSE e \in EventsOf({}) : e.Type = "text" /\ ~e.Marker,
                  Env(TRUE, "none", DefaultInfo))
        EXCEPT !.pc = "none"]

Init ==
    /\ HandlerInit
    /\ sw = SubmitStart
    /\ fw = NoForward

(***************************************************************************)
(* POST /call-ended                                                         *)
(***************************************************************************)
\* the checks before the guard, in the handler's order; "ok" when all pass
Validate_NoPhoneCheck(body, waCliNil) ==
    CASE ~body.ok -> "Invalid request body"
      [] body.CallID = "" \/ body.Phone = "" -> "call_id and Phone are required"
      [] waCliNil -> "WhatsApp client not initialized"
      [] OTHER -> "ok"

Validate(body, waCliNil) ==
    CASE ~body.ok -> "Invalid request body"
      [] body.CallID = "" \/ body.Phone = "" -> "call_id and Phone are required"
      [] waCliNil -> "WhatsApp client not initialized"
      [] ParseJIDFails(body.Phone) -> "Invalid Phone"
      [] OTHER -> "ok"

\* a request arrives: BodyParser, the required fields, GetWaCli, ParseJID.
\* Requests are numbered in their order of arrival.
ReceiveOf(r, bodies) ==
    /\ pc[r] = "idle"
    /\ \A q \in Requests : q < r => pc[q] # "idle"
    /\ \E body \in bodies, waCliNil \in BOOLEAN :
          LET v == Validate(body, waCliNil)
          IN  IF v = "ok"
              THEN /\ request' = [request EXCEPT ![r] = [CallID |-> body.CallID, Phone |-> body.Phone]]
                   /\ pc' = [pc EXCEPT ![r] = "guard"]
                   /\ UNCHANGED response
              ELSE /\ pc' = [pc EXCEPT ![r] = "done"]
                   /\ response' = [response EXCEPT ![r] = v]
                   /\ UNCHANGED request
    /\ UNCHANGED <<guard, rejected, callWebhookCache, timer, sleeping, WhatsappWebhook,
                   delivery, submitted, live, sw, fw>>

Receive(r) == ReceiveOf(r, Bodies)

\* `if _, exists := callWebhookCache.LoadOrStore(cacheKey, time.Now()); exists`
\* returns "call rejected (already processed)"; otherwise the eviction
\* goroutine is started and the handler goes on to RejectCall
Guard(r) ==
    /\ pc[r] = "guard"
    /\ LET res == LoadOrStore(callWebhookCache, KeyOf(r))
       IN  /\ callWebhookCache' = res.cache
           /\ live' = [live EXCEPT ![r] = ~res.exists]
           /\ IF res.exists
              THEN /\ guard' = [guard EXCEPT ![r] = "duplicate"]
                   /\ response' = [response EXCEPT ![r] = "call rejected (already processed)"]
                   /\ pc' = [pc EXCEPT ![r] = "done"]
                   /\ UNCHANGED <<timer, sleeping>>
              ELSE /\ guard' = [guard EXCEPT ![r] = "first"]
                   /\ timer' = [timer EXCEPT ![r] = "sleeping"]
                   /\ sleeping' = Append(sleeping, r)
                   /\ pc' = [pc EXCEPT ![r] = "reject"]
                   /\ UNCHANGED response
    /\ UNCHANGED <<request, rejected, WhatsappWebhook, delivery, submitted, sw, fw>>

\* `err = waCli.RejectCall(jid, request.CallID)` returns; on success the
\* webhook goroutine is started when a subscriber URL is configured
RejectCall_StartsOnError(r) ==
    /\ pc[r] = "reject"
    /\ \E ok \in BOOLEAN :
          /\ rejected' = [rejected EXCEPT ![r] = IF ok THEN "ok" ELSE "err"]
          /\ delivery' = [delivery EXCEPT ![r] =
                             IF Len(WhatsappWebhook) > 0 THEN "started" ELSE "none"]
          /\ pc' = [pc EXCEPT ![r] = IF ok THEN "respond" ELSE "rollback"]
    /\ UNCHANGED <<request, guard, response, callWebhookCache, timer, sleeping,
                   WhatsappWebhook, submitted, live, sw, fw>>

RejectCall(r) ==
    /\ pc[r] = "reject"
    /\ \E ok \in BOOLEAN :
          IF ok
          THEN /\ rejected' = [rejected EXCEPT ![r] = "ok"]
               /\ delivery' = [delivery EXCEPT ![r] =
                                  IF Len(WhatsappWebhook) > 0 THEN "started" ELSE "none"]
               /\ pc' = [pc EXCEPT ![r] = "respond"]
          ELSE /\ rejected' = [rejected EXCEPT ![r] = "err"]
               /\ pc' = [pc EXCEPT ![r] = "rollback"]
               /\ UNCHANGED delivery
    /\ UNCHANGED <<request, guard, response, callWebhookCache, timer, sleeping,
                   WhatsappWebhook, submitted, live, sw, fw>>

\* `callWebhookCache.Delete(cacheKey)` after a failed RejectCall
Rollback(r) ==
    /\ pc[r] = "rollback"
    /\ callWebhookCache' = Delete(callWebhookCache, KeyOf(r))
    /\ live' = Removed(callWebhookCache, KeyOf(r))
    /\ pc' = [pc EXCEPT ![r] = "failed"]
    /\ UNCHANGED <<request, guard, rejected, response, timer, sleeping, WhatsappWebhook,
                   delivery, submitted, sw, fw>>

\* the 500 "Failed to reject call" response
RespondFailed(r) ==
    /\ pc[r] = "failed"
    /\ response' = [response EXCEPT ![r] = "Failed to reject call"]
    /\ pc' = [pc EXCEPT ![r] = "done"]
    /\ UNCHANGED <<request, guard, rejected, callWebhookCache, timer, sleeping,
                   WhatsappWebhook, delivery, submitted, live, sw, fw>>

\* the "call rejected" response
Respond_AwaitsDelivery(r) ==
    /\ pc[r] = "respond"
    /\ delivery[r] # "started"
    /\ response' = [response EXCEPT ![r] = "call rejected"]
    /\ pc' = [pc EXCEPT ![r] = "done"]
    /\ UNCHANGED <<request, guard, rejected, callWebhookCache, timer, sleeping,
                   WhatsappWebhook, delivery, submitted, live, sw, fw>>

Respond(r) ==
    /\ pc[r] = "respond"
    /\ response' = [response EXCEPT ![r] = "call rejected"]
    /\ pc' = [pc EXCEPT ![r] = "done"]
    /\ UNCHANGED <<request, guard, rejected, callWebhookCache, timer, sleeping,
                   WhatsappWebhook, delivery, submitted, live, sw, fw>>

\* an eviction goroutine: `time.Sleep(cacheTTL)` returns and it runs
\* `callWebhookCache.Delete(cacheKey)`. Every goroutine sleeps the same
\* cacheTTL, so the sleeps end in the order they began.
Evict ==
    /\ sleeping # <<>>
    /\ LET r == Head(sleeping)
       IN  /\ callWebhookCache' = Delete(callWebhookCache, KeyOf(r))
           /\ live' = Removed(callWebhookCache, KeyOf(r))
           /\ timer' = [timer EXCEPT ![r] = "done"]
    /\ sleeping' = Tail(sleeping)
    /\ UNCHANGED <<pc, request, guard, rejected, response, WhatsappWebhook,
                   delivery, submitted, sw, fw>>

\* the runs of SubmitWebhook the webhook goroutine can meet
DeliveryPreparations == {"ok", "request"}
DeliveryOutcomes ==
    {[err |-> "nil", status |-> 200, wrote |-> TRUE],
     [err |-> "refused", status |-> 0, wrote |-> FALSE]}
DeliveryResults ==
    {SubmitWebhook(prep, outs).result :
        prep \in DeliveryPreparations, outs \in [1..maxAttempts -> DeliveryOutcomes]}

\* `for _, url := range config.WhatsappWebhook`: one SubmitWebhook call per
\* URL; an error is logged and the loop goes on. results[i] is what the
\* call for the i-th URL returns.
RECURSIVE RangeWebhook(_, _, _)
RangeWebhook(urls, results, i) ==
    IF i > Len(urls)
    THEN <<>>
    ELSE <<[url |-> urls[i], result |-> results[i]]>> \o RangeWebhook(urls, results, i + 1)

\* the webhook goroutine started after a successful RejectCall. SubmitWebhook
\* reads and writes nothing the handlers share, so the goroutine is one step.
Deliver_RollsBack(r) ==
    /\ delivery[r] = "started"
    /\ \E results \in [1..Len(WhatsappWebhook) -> DeliveryResults] :
          /\ submitted' = [submitted EXCEPT ![r] = RangeWebhook(WhatsappWebhook, results, 1)]
          /\ IF \E i \in 1..Len(WhatsappWebhook) : results[i] = "WebhookError"
             THEN /\ callWebhookCache' = Delete(callWebhookCache, KeyOf(r))
                  /\ live' = Removed(callWebhookCache, KeyOf(r))
             ELSE UNCHANGED <<callWebhookCache, live>>
    /\ delivery' = [delivery EXCEPT ![r] = "finished"]
    /\ UNCHANGED <<pc, request, guard, rejected, response, timer,
                   sleeping, WhatsappWebhook, sw, fw>>

Deliver(r) ==
    /\ delivery[r] = "started"
    /\ \E results \in [1..Len(WhatsappWebhook) -> DeliveryResults] :
          submitted' = [submitted EXCEPT ![r] = RangeWebhook(WhatsappWebhook, results, 1)]
    /\ delivery' = [delivery EXCEPT ![r] = "finished"]
    /\ UNCHANGED <<pc, request, guard, rejected, response, callWebhookCache, timer,
                   sleeping, WhatsappWebhook, live, sw, fw>>

Next ==
    \/ \E r \in Requests : Receive(r)
    \/ \E r \in Requests : Guard(r)
    \/ \E r \in Requests : RejectCall(r)
    \/ \E r \in Requests : Rollback(r)
    \/ \E r \in Requests : RespondFailed(r)
    \/ \E r \in Requests : Respond(r)
    \/ \E r \in Requests : Deliver(r)
    \/ Evict

Spec == Init /\ [][Next]_vars

(***************************************************************************)
(* One SubmitWebhook call, statement by statement                           *)
(***************************************************************************)
SubmitInit ==
    /\ HandlerInit
    /\ WhatsappWebhook = <<"u1">>
    /\ sw = SubmitStart
    /\ fw = NoForward

SubmitPrepare ==
    /\ sw.pc = "prepare"
    /\ \E prep \in Preparations : sw' = Prepare(sw, prep)
    /\ UNCHANGED <<handlerVars, fw>>

SubmitClientDo ==
    /\ sw.pc = "attempt"
    /\ sw' = ClientDo(sw)
    /\ UNCHANGED <<handlerVars, fw>>

SubmitAttempt ==
    /\ sw.pc = "do"
    /\ \E out \in Outcomes : sw' = Attempt(sw, out)
    /\ UNCHANGED <<handlerVars, fw>>

SubmitSleep ==
    /\ sw.pc = "sleep"
    /\ sw' = Sleep(sw)
    /\ UNCHANGED <<handlerVars, fw>>

SubmitNext == SubmitPrepare \/ SubmitClientDo \/ SubmitAttempt \/ SubmitSleep

SubmitSpec == SubmitInit /\ [][SubmitNext]_vars

\* the same when the goroutine that runs the call is scheduled and every
\* client.Do ends: the client is built with Timeout: 10 * time.Second, and
\* every time.Sleep is finite
SubmitLiveSpec == SubmitSpec /\ WF_vars(SubmitNext)

\* the handlers when no subscriber URL is configured: no webhook goroutine
\* is ever started. (Deliver changes delivery and submitted only, so the
\* map, the eviction goroutines and the handlers behave the same with it.)
GuardInit ==
    /\ Init
    /\ WhatsappWebhook = <<>>

GuardNext ==
    \/ \E r \in Requests : Receive(r)
    \/ \E r \in Requests : Guard(r)
    \/ \E r \in Requests : RejectCall(r)
    \/ \E r \in Requests : Rollback(r)
    \/ \E r \in Requests : RespondFailed(r)
    \/ \E r \in Requests : Respond(r)
    \/ Evict

GuardSpec == GuardInit /\ [][GuardNext]_vars

\* the handler, the guard and the eviction goroutines for the requests whose
\* call_id or Phone holds a ":"
KeyReceive(r) == ReceiveOf(r, KeyBodies)

KeyNext ==
    \/ \E r \in Requests : KeyReceive(r)
    \/ \E r \in Requests : Guard(r)
    \/ \E r \in Requests : RejectCall(r)
    \/ \E r \in Requests : Rollback(r)
    \/ \E r \in Requests : RespondFailed(r)
    \/ \E r \in Requests : Respond(r)
    \/ Evict

KeySpec == GuardInit /\ [][KeyNext]_vars

\* the same under fair scheduling of the eviction goroutines: a goroutine
\* whose time.Sleep(cacheTTL) has run out is eventually scheduled
LiveSpec == GuardSpec /\ WF_vars(Evict)

(***************************************************************************)
(* forwardToWebhook                                                         *)
(***************************************************************************)
ForwardInit ==
    /\ HandlerInit
    /\ sw = SubmitStart
    /\ \E evt \in Events : \E env \in EnvsOf(evt) : fw = ForwardStart(evt, env)

\* `payload, err := createPayload(ctx, evt); if err != nil { return err }`;
\* with no URL configured the range loop ends at once and nil is returned
ForwardCreatePayload_IgnoresError ==
    /\ fw.pc = "createPayload"
    /\ LET res == createPayload(fw.evt, fw.env)
       IN  fw' = [fw EXCEPT !.payload = res.body,
                            !.classified = res.classified,
                            !.err = res.err,
                            !.pc = IF Len(WhatsappWebhook) > 0 THEN "range" ELSE "return"]
    /\ UNCHANGED <<handlerVars, sw>>

ForwardCreatePayload ==
    /\ fw.pc = "createPayload"
    /\ LET res == createPayload(fw.evt, fw.env)
       IN  fw' = [fw EXCEPT !.payload = res.body,
                            !.classified = res.classified,
                            !.err = res.err,
                            !.pc = IF res.err = "nil" /\ Len(WhatsappWebhook) > 0
                                   THEN "range" ELSE "return"]
    /\ UNCHANGED <<handlerVars, sw>>

\* one pass of `for _, url := range config.WhatsappWebhook`:
\* `if err = SubmitWebhook(payload, url); err != nil { return err }`; after
\* the last URL nil is returned
ForwardSubmit ==
    /\ fw.pc = "range"
    /\ \E result \in DeliveryResults :
          LET url == WhatsappWebhook[Len(fw.submitted) + 1]
              made == Append(fw.submitted, [url |-> url, result |-> result])
          IN  fw' = [fw EXCEPT !.submitted = made,
                               !.err = result,
                               !.pc = IF result = "nil" /\ Len(made) < Len(WhatsappWebhook)
                                      THEN "range" ELSE "return"]
    /\ UNCHANGED <<handlerVars, sw>>

ForwardNext == ForwardCreatePayload \/ ForwardSubmit

ForwardSpec == ForwardInit /\ [][ForwardNext]_vars

(***************************************************************************)
(* Properties of the dedup guard                                            *)
(***************************************************************************)
SameKey(r1, r2) == KeyOf(r1) = KeyOf(r2)

Observed(r) == guard[r] # "none"

\* the window of r: from its insertion until its eviction goroutine has run
WindowOpen(r) == timer[r] = "sleeping"

\* r2 is at the guard, r1 is the only request that has observed r2's key so
\* far, r1 was first observer and its window is still open
SecondObservation(r1, r2) ==
    /\ r1 # r2
    /\ pc[r2] = "guard"
    /\ SameKey(r1, r2)
    /\ guard[r1] = "first"
    /\ WindowOpen(r1)
    /\ \A r3 \in Requests \ {r1, r2} : Observed(r3) => ~SameKey(r3, r2)

TakesDuplicatePath(r) ==
    /\ guard'[r] = "duplicate"
    /\ response'[r] = "call rejected (already processed)"
    /\ rejected'[r] = "none"
    /\ pc'[r] = "done"

\* C1: of the requests with one key that pass the guard while no entry of
\* that key has been removed in between, exactly one is first observer: two
\* first observers of a key never both have their entry in the map, a key is
\* in the map exactly when one first observer's entry is, and every
\* duplicate answers "already processed" without calling RejectCall.
C1_OneFirstObserver ==
    /\ \A r1, r2 \in Requests :
          (r1 # r2 /\ guard[r1] = "first" /\ guard[r2] = "first" /\ SameKey(r1, r2))
              => ~(live[r1] /\ live[r2])
    /\ \A r \in Requests : live[r] => (guard[r] = "first" /\ KeyOf(r) \in callWebhookCache)
    /\ \A k \in callWebhookCache : \E r \in Requests : KeyOf(r) = k /\ live[r]
    /\ \A r \in Requests :
          guard[r] = "duplicate"
              => /\ rejected[r] = "none"
                 /\ response[r] = "call rejected (already processed)"
                 /\ \E q \in Requests \ {r} : guard[q] = "first" /\ SameKey(q, r)

\* two requests raced for one key: the one that arrived later stored it and
\* goes on to RejectCall, the other one took the duplicate path
C1_Witness ==
    \E r1, r2 \in Requests :
        /\ r1 < r2 /\ SameKey(r1, r2)
        /\ guard[r2] = "first" /\ live[r2] /\ pc[r2] = "reject"
        /\ guard[r1] = "duplicate"

\* C2: for one key, at most one RejectCall succeeds within the TTL window
\* opened by the insertion of a request whose RejectCall succeeded: no two
\* requests with the same key have both succeeded while the windows of both
\* are still open.
C2_OneRejectPerWindow ==
    \A r1, r2 \in Requests :
        (/\ r1 # r2 /\ SameKey(r1, r2)
         /\ rejected[r1] = "ok" /\ response[r1] = "call rejected"
         /\ rejected[r2] = "ok" /\ response[r2] = "call rejected")
            => ~(WindowOpen(r1) /\ WindowOpen(r2))

\* C3 as stated: whenever the same event is observed a second time inside
\* the window of its first observation, the second observation takes the
\* duplicate path.
C3_SecondIsDuplicate ==
    [][\A r1, r2 \in Requests :
          (SecondObservation(r1, r2) /\ pc'[r2] # "guard") => TakesDuplicatePath(r2)]_vars

\* C3 amended: when the same event is observed a second time inside the
\* window of its first observation and the first observation's RejectCall
\* has not failed, the second observation answers "already processed"
\* without calling RejectCall; a duplicate never calls RejectCall nor
\* starts a webhook goroutine, and a webhook goroutine calls SubmitWebhook
\* once per configured URL.
C3_SecondIsDuplicateUnlessFailed ==
    /\ [][\A r1, r2 \in Requests :
            (SecondObservation(r1, r2) /\ rejected[r1] # "err" /\ pc'[r2] # "guard")
                => TakesDuplicatePath(r2)]_vars
    /\ [](\A r \in Requests :
            /\ guard[r] = "duplicate" => (delivery[r] = "none" /\ submitted[r] = <<>>)
            /\ Len(submitted[r]) <= Len(WhatsappWebhook)
            /\ \A i \in 1..Len(submitted[r]) : submitted[r][i].url = WhatsappWebhook[i])

\* the first observation succeeded and delivered its webhook, the second one
\* came inside its window and was answered "already processed"
C3_Witness ==
    \E r1, r2 \in Requests :
        /\ r1 # r2 /\ SameKey(r1, r2)
        /\ guard[r1] = "first" /\ rejected[r1] = "ok" /\ WindowOpen(r1)
        /\ delivery[r1] = "finished"
        /\ response[r2] = "call rejected (already processed)"
        /\ \A r3 \in Requests \ {r1, r2} : ~Observed(r3)

\* C4: the guard reports first observer exactly when its own key is absent,
\* whatever other keys are present; afterwards the key is present, so the
\* same key guarded again at once reports a duplicate; no other key is
\* touched.
C4_GuardReports ==
    [][\A r \in Requests :
          (pc[r] = "guard" /\ pc'[r] # "guard")
              => /\ guard'[r] = IF KeyOf(r) \in callWebhookCache THEN "duplicate" ELSE "first"
                 /\ KeyOf(r) \in callWebhookCache'
                 /\ callWebhookCache' \ {KeyOf(r)} = callWebhookCache \ {KeyOf(r)}]_vars

\* three guards: a key reported first, the same key reported duplicate, and
\* a different key reported first while the first key was present
C4_Witness ==
    \E r1, r2, r3 \in Requests :
        /\ SameKey(r1, r2) /\ ~SameKey(r1, r3)
        /\ guard[r1] = "first" /\ guard[r2] = "duplicate" /\ guard[r3] = "first"
        /\ live[r1] /\ live[r3]

\* C5: when a request has answered "Failed to reject call", the entry it
\* stored is no longer in the map; if its key is in the map, a different
\* request was first observer again and stored it.
C5_RollbackBeforeError ==
    \A r \in Requests :
        (pc[r] = "failed" \/ response[r] = "Failed to reject call")
            => /\ rejected[r] = "err"
               /\ ~live[r]
               /\ KeyOf(r) \in callWebhookCache
                     => \E q \in Requests \ {r} :
                           guard[q] = "first" /\ SameKey(q, r) /\ live[q]

\* a request failed and answered its error, and before its TTL ran out a
\* later request with the same key was first observer and called RejectCall
C5_Witness ==
    \E r, q \in Requests :
        /\ r # q /\ SameKey(r, q)
        /\ response[r] = "Failed to reject call" /\ WindowOpen(r)
        /\ guard[q] = "first" /\ rejected[q] # "none"

\* C6: the entry of a first observer whose RejectCall succeeded is
\* eventually removed and its eviction goroutine eventually ends.
C6_EventuallyEvicted ==
    \A r \in Requests :
        (guard[r] = "first" /\ rejected[r] = "ok") ~> (timer[r] = "done" /\ ~live[r])

\* an entry expired by its eviction goroutine, and a later request with the
\* same key was first observer again
C6_Witness ==
    \E r, q \in Requests :
        /\ r # q /\ SameKey(r, q)
        /\ rejected[r] = "ok" /\ timer[r] = "done" /\ response[r] = "call rejected"
        /\ guard[q] = "first" /\ live[q]
        /\ \A r3 \in Requests \ {r, q} : ~Observed(r3)

(***************************************************************************)
(* Properties of SubmitWebhook                                              *)
(***************************************************************************)
Returned == sw.pc = "return"

IsAttempt(e) == e.ev = "attempt"

IsSleep(e) == e.ev = "sleep"

\* the call returned after attempts that all failed at transport level
Exhausted ==
    /\ Returned
    /\ sw.attempts > 0
    /\ \A i \in 1..Len(sw.events) :
          IsAttempt(sw.events[i]) => sw.events[i].out.err \in TransportErrors

RECURSIVE Pow2(_)
Pow2(n) == IF n = 0 THEN 1 ELSE 2 * Pow2(n - 1)

RECURSIVE Sum(_)
Sum(seq) == IF seq = <<>> THEN 0 ELSE Head(seq) + Sum(Tail(seq))

\* C7: a call whose every attempt fails at transport level makes exactly 5
\* attempts, sleeps 1s, 2s, 4s, 8s between consecutive attempts, and returns
\* a WebhookError that reports 5 attempts and the error of the last attempt.
C7_ExhaustedDelivery ==
    Exhausted =>
        /\ sw.attempts = 5
        /\ \A k \in 1..5 : IsAttempt(sw.events[2 * k - 1]) /\ sw.events[2 * k - 1].n = k
        /\ \A k \in 1..4 : IsSleep(sw.events[2 * k]) /\ sw.events[2 * k].n = Pow2(k - 1)
        /\ \A i \in 1..Len(sw.events) : IsAttempt(sw.events[i]) => i <= 9
        /\ sw.result = "WebhookError"
        /\ sw.reported = 5
        /\ sw.err = sw.events[9].out.err

\* five attempts failed, the last one with another error than the first
C7_Witness ==
    /\ Exhausted
    /\ sw.result = "WebhookError"
    /\ sw.events[1].out.err = "timeout"
    /\ sw.err = "refused"

\* C8: every sleep lies between two attempts: when the call has returned,
\* each sleep is followed by an attempt, so an exhausted call has slept
\* 1 + 2 + 4 + 8 seconds.
C8_SleepsOnlyBetweenAttempts ==
    Returned =>
        /\ \A i \in 1..Len(sw.events) :
              IsSleep(sw.events[i])
                  => (i < Len(sw.events) /\ IsAttempt(sw.events[i + 1]))
        /\ Exhausted => Sum(sw.sleeps) = 15

\* C9: a call that returns nil has made k attempts, 1 <= k <= 5, the last
\* of which got a response, has slept k - 1 times, once after each failed
\* attempt, and has done nothing after the successful attempt.
C9_SuccessShortCircuits ==
    (Returned /\ sw.result = "nil") =>
        LET k == sw.attempts
        IN  /\ k \in 1..5
            /\ Len(sw.sleeps) = k - 1
            /\ Len(sw.events) = 2 * k - 1
            /\ IsAttempt(sw.events[2 * k - 1])
            /\ sw.events[2 * k - 1].out.err = "nil"
            /\ \A j \in 1..(k - 1) :
                  /\ IsAttempt(sw.events[2 * j - 1])
                  /\ sw.events[2 * j - 1].out.err # "nil"
                  /\ IsSleep(sw.events[2 * j])

\* the third attempt succeeded after two failures and two sleeps
C9_Witness ==
    /\ Returned
    /\ sw.result = "nil"
    /\ sw.attempts = 3
    /\ sw.sleeps = <<1, 2>>

\* C10: an attempt that receives a response, whatever its status code, is
\* the last thing the call does and makes it return nil; only an attempt
\* that failed at transport level is followed by a sleep or another attempt.
C10_OnlyTransportErrorsRetry ==
    \A i \in 1..Len(sw.events) :
        IsAttempt(sw.events[i]) =>
            IF sw.events[i].out.err = "nil"
            THEN /\ i = Len(sw.events)
                 /\ Returned
                 /\ sw.result = "nil"
            ELSE /\ sw.events[i].out.err \in TransportErrors
                 /\ i < Len(sw.events) => IsSleep(sw.events[i + 1])
                 /\ i = Len(sw.events) => sw.pc = "sleep"

\* a first attempt failed and was retried, the retry got a 500 response and
\* the call returned nil
C10_Witness ==
    /\ Returned
    /\ sw.result = "nil"
    /\ sw.attempts = 2
    /\ sw.last.status = 500

\* C11: a SubmitWebhook call never makes more than 5 attempts, and when every
\* client.Do ends (within the client's timeout) the call returns, with nil
\* or with a WebhookError.
C11_Terminates ==
    /\ [](sw.attempts <= 5 /\ sw.attempt <= 5)
    /\ <>(Returned /\ sw.result \in {"nil", "WebhookError"} /\ sw.attempts <= 5)

\* a mix of failing and succeeding attempts: four transport errors of both
\* kinds, then a response on the fifth attempt
C11_Witness ==
    /\ Returned
    /\ sw.result = "nil"
    /\ sw.attempts = 5
    /\ sw.events[1].out.err = "timeout"
    /\ sw.events[3].out.err = "refused"

\* C13: the attempts of one SubmitWebhook call are strictly sequential: at
\* most one request is in flight, and it is in flight only while the call is
\* blocked in client.Do; attempt k + 1 is started only after attempt k has
\* come back with a transport error and the sleep that follows it has ended.
C13_SequentialAttempts ==
    /\ sw.inflight \in {0, 1}
    /\ sw.inflight = 1 <=> sw.pc = "do"
    /\ sw.pc = "do" =>
          /\ sw.attempts = sw.attempt
          /\ Len(sw.events) = 2 * sw.attempts
          /\ sw.attempts > 0 => IsSleep(sw.events[Len(sw.events)])
    /\ \A i \in 1..Len(sw.events) :
          (IsAttempt(sw.events[i]) /\ sw.events[i].n > 1)
              => /\ IsSleep(sw.events[i - 1])
                 /\ IsAttempt(sw.events[i - 2])
                 /\ sw.events[i - 2].n = sw.events[i].n - 1
                 /\ sw.events[i - 2].out.err \in TransportErrors

\* the third attempt is in flight; the two before it failed and were each
\* followed by a sleep
C13_Witness ==
    /\ sw.pc = "do"
    /\ sw.inflight = 1
    /\ sw.attempts = 2
    /\ sw.sleeps = <<1, 2>>

(***************************************************************************)
(* Properties of the detached delivery of POST /call-ended                  *)
(***************************************************************************)
DeliveryFailed(r) ==
    /\ delivery[r] = "finished"
    /\ \E i \in 1..Len(submitted[r]) : submitted[r][i].result = "WebhookError"

\* C14 as stated: the handler has answered "call rejected" before its webhook
\* goroutine has ended.
C14_RespondsBeforeDeliveryEnds ==
    \A r \in Requests : delivery[r] = "finished" => response[r] = "call rejected"

\* C14 amended: the handler starts the webhook goroutine and answers "call
\* rejected" without waiting for it: once RejectCall has succeeded the
\* response can be given whatever the goroutine is doing, the response is
\* "call rejected" whatever the deliveries return, and the goroutine may
\* end before or after the response.
C14_ResponseDoesNotWait ==
    \A r \in Requests :
        /\ pc[r] = "respond" => ENABLED Respond(r)
        /\ delivery[r] # "none" => (rejected[r] = "ok" /\ pc[r] \in {"respond", "done"})
        /\ (rejected[r] = "ok" /\ pc[r] = "done") => response[r] = "call rejected"
        /\ (rejected[r] = "ok" /\ pc[r] = "respond") => response[r] = "none"

\* the handler has answered while its webhook goroutine is still running
C14_Witness ==
    \E r \in Requests :
        /\ response[r] = "call rejected"
        /\ delivery[r] = "started"
        /\ Len(WhatsappWebhook) = 2

\* C15: the webhook goroutine rolls nothing back: the step in which its
\* deliveries end, failed or not, leaves the map, the eviction goroutines,
\* the results of RejectCall and the handlers where they were; a request
\* whose delivery failed has had one successful RejectCall and its answer,
\* given or still to give, is "call rejected".
C15_DeliveryFailureRollsNothingBack ==
    /\ [][\A r \in Requests :
            (delivery[r] = "started" /\ delivery'[r] = "finished")
                => /\ callWebhookCache' = callWebhookCache
                   /\ live' = live
                   /\ timer' = timer
                   /\ sleeping' = sleeping
                   /\ rejected' = rejected
                   /\ response' = response
                   /\ pc' = pc]_vars
    /\ [](\A r \in Requests :
            DeliveryFailed(r)
                => /\ rejected[r] = "ok"
                   /\ guard[r] = "first"
                   /\ pc[r] \in {"respond", "done"}
                   /\ response[r] = IF pc[r] = "done" THEN "call rejected" ELSE "none")

\* the delivery to the second URL failed after the handler had answered; the
\* key is still in the map and its eviction goroutine still sleeps
C15_Witness ==
    \E r \in Requests :
        /\ DeliveryFailed(r)
        /\ submitted[r][1].result = "nil"
        /\ submitted[r][2].result = "WebhookError"
        /\ response[r] = "call rejected"
        /\ live[r] /\ KeyOf(r) \in callWebhookCache
        /\ WindowOpen(r)

(***************************************************************************)
(* Properties of forwardToWebhook, determineMessageType and createPayload   *)
(***************************************************************************)
\* createPayload has returned a payload
PayloadBuilt == fw.pc \in {"range", "return"} /\ "Type" \in DOMAIN fw.payload

ForwardReturned == fw.pc = "return"

\* C12: when forwardToWebhook has returned for an event whose payload was
\* built, SubmitWebhook has been called once for each configured URL,
\* whatever the calls for the other URLs returned.
C12_EveryUrlIsTried ==
    (ForwardReturned /\ PayloadBuilt) =>
        /\ Len(fw.submitted) = Len(WhatsappWebhook)
        /\ \A i \in 1..Len(WhatsappWebhook) : fw.submitted[i].url = WhatsappWebhook[i]

\* determineMessageType has been applied to the event
Classified == fw.pc # "createPayload" /\ fw.env.jidOk

\* the 17 kinds of MessageKind
MessageKinds ==
    {"voice_message", "audio_message", "image_message", "video_message",
     "document_message", "sticker_message", "contact_message", "location_message",
     "live_location_message", "list_message", "order", "payment", "poll_message",
     "reaction_message", "link_message", "text_message", "unknown"}

\* the texts of the model that hold a URL
HoldsUrl(text) == text \in {HttpText, HttpsText}

\* the text the kind of a text event is decided on
ResolvedText(evt) ==
    IF "extendedTextMessage" \in evt.Message THEN evt.Text ELSE evt.Conversation

\* the ordered rules 1 to 9 of the classifier: when rule k applies to an
\* event, and the kinds it gives
Rule(k, evt) ==
    CASE k = 1 -> "audioMessage" \in evt.Message
      [] k = 2 -> evt.Message \cap {"imageMessage", "videoMessage", "documentMessage",
                                    "stickerMessage", "contactMessage"} # {}
      [] k = 3 -> evt.Type = "media" /\ evt.Marker
      [] k = 4 -> evt.Message \cap {"locationMessage", "liveLocationMessage",
                                    "listMessage"} # {}
      [] k = 5 -> evt.Message \cap {"orderMessage", "paymentInviteMessage"} # {}
      [] k = 6 -> evt.Message \cap {"pollCreationMessageV3", "pollCreationMessageV4",
                                    "pollCreationMessageV5", "pollUpdateMessage"} # {}
      [] k = 7 -> "reactionMessage" \in evt.Message
      [] k = 8 -> evt.Conversation # <<>> \/ "extendedTextMessage" \in evt.Message
      [] k = 9 -> TRUE

KindOfField ==
    [imageMessage |-> "image_message", videoMessage |-> "video_message",
     documentMessage |-> "document_message", stickerMessage |-> "sticker_message",
     contactMessage |-> "contact_message", locationMessage |-> "location_message",
     liveLocationMessage |-> "live_location_message", listMessage |-> "list_message",
     orderMessage |-> "order", paymentInviteMessage |-> "payment"]

KindsOfRule(k, evt) ==
    CASE k = 1 -> {IF evt.PTT THEN "voice_message" ELSE "audio_message"}
      [] k \in {2, 4, 5} ->
            {KindOfField[f] : f \in {g \in evt.Message \cap DOMAIN KindOfField :
                                        Rule(k, [evt EXCEPT !.Message = {g}])}}
      [] k = 3 -> {"contact_message"}
      [] k = 6 -> {"poll_message"}
      [] k = 7 -> {"reaction_message"}
      [] k = 8 -> {IF HoldsUrl(ResolvedText(evt)) THEN "link_message" ELSE "text_message"}
      [] k = 9 -> {"unknown"}

FirstRule(evt) ==
    CHOOSE k \in 1..9 : Rule(k, evt) /\ \A j \in 1..(k - 1) : ~Rule(j, evt)

\* no rule before the text rule applies to the event
TextShaped(evt) == \A k \in 1..7 : ~Rule(k, evt)

\* C16: determineMessageType gives every event one of the 17 kinds, and
\* "unknown" exactly to the events none of whose fields it tests; the Type
\* of a payload is one of the 17 kinds too. (The kind is a function of the
\* event: it is the value of an operator of the event and its text.)
C16_ClassifyIsTotal ==
    /\ Classified =>
          /\ fw.classified \in MessageKinds
          /\ fw.classified = "unknown" <=> (\A k \in 1..8 : ~Rule(k, fw.evt))
          /\ fw.classified = determineMessageType(fw.evt, ResolvedText(fw.evt))
    /\ PayloadBuilt => fw.payload["Type"] \in MessageKinds

\* a media envelope with no field populated and no marker is "unknown"
C16_Witness ==
    /\ Classified
    /\ fw.classified = "unknown"
    /\ fw.evt.Type = "media"
    /\ fw.evt.Message = {}

\* C17: the kind determineMessageType gives an event is a kind of the first
\* of the rules 1 to 9 that applies to it; when a field of the rules 1 to 7
\* is populated the kind is never one of the text rule.
C17_FirstMatchingRule ==
    Classified =>
        /\ fw.classified \in KindsOfRule(FirstRule(fw.evt), fw.evt)
        /\ ~TextShaped(fw.evt) => fw.classified \notin {"link_message", "text_message", "unknown"}

\* a voice note and an extended text with a URL in one event: voice_message
C17_Witness ==
    /\ Classified
    /\ fw.evt.Message = {"audioMessage", "extendedTextMessage"}
    /\ fw.evt.PTT
    /\ fw.evt.Text = HttpsText
    /\ fw.classified = "voice_message"

\* C18: for a media envelope whose raw content holds the multi-contact
\* marker and that has no audio, determineMessageType gives contact_message,
\* also when an image, video, document, sticker or contact is populated, and
\* the Type of the payload is contact_message too.
C18_MediaContactsOverride ==
    (Classified /\ fw.evt.Type = "media" /\ fw.evt.Marker /\ ~Rule(1, fw.evt)) =>
        /\ fw.classified = "contact_message"
        /\ PayloadBuilt => fw.payload["Type"] = fw.classified

\* C19 as stated: the payload of every event with an extended text that
\* holds a URL has Type link_message, the raw text as TextMessage, and the
\* TitleLink and LinkDescription of a non-empty title and description; the
\* payload of a plain text event whose body holds a URL has Type
\* link_message and the body as TextMessage.
C19_LinkPayload ==
    PayloadBuilt =>
        LET evt == fw.evt
            message == fw.payload["message"]
        IN  /\ ("extendedTextMessage" \in evt.Message /\ HoldsUrl(evt.Text)) =>
                  /\ fw.payload["Type"] = "link_message"
                  /\ message["TextMessage"] = evt.Text
                  /\ evt.Title # "" =>
                        ("TitleLink" \in DOMAIN message /\ message["TitleLink"] = evt.Title)
                  /\ evt.Description # "" =>
                        /\ "LinkDescription" \in DOMAIN message
                        /\ message["LinkDescription"] = evt.Description
            /\ ("extendedTextMessage" \notin evt.Message /\ HoldsUrl(evt.Conversation)) =>
                  /\ fw.payload["Type"] = "link_message"
                  /\ message["TextMessage"] = evt.Conversation

\* C19 amended: the same, with Type link_message only for the events no rule
\* before the text rule applies to.
C19_LinkPayloadOfTextEvents ==
    PayloadBuilt =>
        LET evt == fw.evt
            message == fw.payload["message"]
        IN  /\ ("extendedTextMessage" \in evt.Message /\ HoldsUrl(evt.Text)) =>
                  /\ TextShaped(evt) => fw.payload["Type"] = "link_message"
                  /\ message["TextMessage"] = evt.Text
                  /\ evt.Title # "" =>
                        ("TitleLink" \in DOMAIN message /\ message["TitleLink"] = evt.Title)
                  /\ evt.Description # "" =>
                        /\ "LinkDescription" \in DOMAIN message
                        /\ message["LinkDescription"] = evt.Description
            /\ ("extendedTextMessage" \notin evt.Message /\ HoldsUrl(evt.Conversation)) =>
                  /\ TextShaped(evt) => fw.payload["Type"] = "link_message"
                  /\ message["TextMessage"] = evt.Conversation

\* the payload of an extended text "http://a" with a title and a description
C19_Witness ==
    /\ PayloadBuilt
    /\ fw.evt.Message = {"extendedTextMessage"}
    /\ fw.evt.Text = HttpText
    /\ fw.payload["Type"] = "link_message"
    /\ fw.payload["message"]["TitleLink"] = "Title"
    /\ fw.payload["message"]["LinkDescription"] = "Description"

\* C20 as stated: in every payload, Type is link_message exactly when
\* TextMessage holds a URL and the event is a text, TitleLink and
\* LinkDescription are there only with Type link_message, and an extended
\* text with a title or a description whose text holds no URL has Type
\* text_message and neither key.
C20_TypeAgreesWithText ==
    PayloadBuilt =>
        LET evt == fw.evt
            message == fw.payload["message"]
            type == fw.payload["Type"]
        IN  /\ type = "link_message" => HoldsUrl(message["TextMessage"])
            /\ type = "text_message" => ~HoldsUrl(message["TextMessage"])
            /\ (DOMAIN message \cap {"TitleLink", "LinkDescription"} # {})
                  => type = "link_message"
            /\ ("extendedTextMessage" \in evt.Message /\ ~HoldsUrl(evt.Text))
                  => /\ type = "text_message"
                     /\ DOMAIN message \cap {"TitleLink", "LinkDescription"} = {}

\* C20 amended: the same, with the Type of the two last parts only for the
\* events no rule before the text rule applies to.
C20_TypeAgreesWithTextOfTextEvents ==
    PayloadBuilt =>
        LET evt == fw.evt
            message == fw.payload["message"]
            type == fw.payload["Type"]
        IN  /\ type = "link_message" => HoldsUrl(message["TextMessage"])
            /\ type = "text_message" => ~HoldsUrl(message["TextMessage"])
            /\ (TextShaped(evt) /\ DOMAIN message \cap {"TitleLink", "LinkDescription"} # {})
                  => type = "link_message"
            /\ ("extendedTextMessage" \in evt.Message /\ ~HoldsUrl(evt.Text))
                  => /\ TextShaped(evt) => type = "text_message"
                     /\ DOMAIN message \cap {"TitleLink", "LinkDescription"} = {}

\* the payload of an extended text "http:// x" with a title and a description
C20_Witness ==
    /\ PayloadBuilt
    /\ fw.evt.Message = {"extendedTextMessage"}
    /\ fw.evt.Text = BrokenUrlText
    /\ fw.evt.Title = "Title"
    /\ fw.evt.Description = "Description"
    /\ fw.payload["Type"] = "text_message"
    /\ DOMAIN fw.payload["message"] = {"ID", "MessageOrigin", "RepliedId", "TextMessage"}

\* createPayload fails for the event: types.ParseJID rejects the chat, or
\* ExtractMedia fails for one of its populated media fields
PayloadFails == ~fw.env.jidOk \/ fw.env.extractFails # "none"

WebhookErrors ==
    {"Invalid JID"} \cup {"Failed to download " \o BodyKeys[f] : f \in MediaFields}

\* C21: when createPayload fails, forwardToWebhook returns a WebhookError,
\* holds no payload, not even a part of one, and has called SubmitWebhook
\* for no URL.
C21_FailedPayloadIsNotDelivered ==
    (fw.pc \notin {"none", "createPayload"} /\ PayloadFails) =>
        /\ fw.pc = "return"
        /\ fw.err \in WebhookErrors
        /\ DOMAIN fw.payload = {}
        /\ fw.submitted = <<>>

\* an audio and image event whose image cannot be downloaded, with two URLs
\* configured
C21_Witness ==
    /\ fw.pc = "return"
    /\ fw.evt.Message = {"audioMessage", "imageMessage"}
    /\ fw.env.extractFails = "imageMessage"
    /\ fw.err = "Failed to download image"
    /\ Len(WhatsappWebhook) = 2

\* createPayload has returned a payload and no error
PayloadReturned == fw.pc \notin {"none", "createPayload"} /\ ~PayloadFails

\* the media keys of a payload and the kinds that go with each
TypesOfKey ==
    [audio |-> {"voice_message", "audio_message"}, image |-> {"image_message"},
     video |-> {"video_message"}, document |-> {"document_message"},
     sticker |-> {"sticker_message"}]

MediaKeys == DOMAIN TypesOfKey

\* at most one of the five media fields of the event is populated
OneMedia(evt) == Cardinality(evt.Message \cap MediaFields) <= 1

\* C22: every returned payload has a Type; a media key is present only with
\* its kind as the Type (voice_message or audio_message for audio), and a
\* media kind is the Type only when its key is present.
C22_TypeAgreesWithMediaKey ==
    PayloadReturned =>
        /\ "Type" \in DOMAIN fw.payload
        /\ \A key \in MediaKeys :
              /\ key \in DOMAIN fw.payload => fw.payload["Type"] \in TypesOfKey[key]
              /\ fw.payload["Type"] \in TypesOfKey[key] => key \in DOMAIN fw.payload

\* C22 amended: the same, with the Type of a present media key only for the
\* events with at most one media field populated that are not a "media"
\* envelope with the multi-contact marker.
C22_TypeAgreesWithMediaKeyOfOneMedia ==
    PayloadReturned =>
        /\ "Type" \in DOMAIN fw.payload
        /\ \A key \in MediaKeys :
              /\ (/\ key \in DOMAIN fw.payload
                  /\ OneMedia(fw.evt)
                  /\ ~MediaWithContactsArray(fw.evt))
                    => fw.payload["Type"] \in TypesOfKey[key]
              /\ fw.payload["Type"] \in TypesOfKey[key] => key \in DOMAIN fw.payload

\* the payload of an image in a "media" envelope without the marker
C22_Witness ==
    /\ PayloadReturned
    /\ fw.evt.Message = {"imageMessage"}
    /\ fw.evt.Type = "media"
    /\ ~fw.evt.Marker
    /\ "image" \in DOMAIN fw.payload
    /\ fw.payload["Type"] = "image_message"

\* the media keys of the payload
PresentMediaKeys == DOMAIN fw.payload \cap MediaKeys

\* C23: every returned payload has at most one of the keys audio, document,
\* image, sticker and video, whatever the event.
C23_AtMostOneMediaKey ==
    PayloadReturned => Cardinality(PresentMediaKeys) <= 1

\* C23 amended: every returned payload of an event with at most one media
\* field populated has at most one of the five media keys.
C23_AtMostOneMediaKeyOfOneMedia ==
    (PayloadReturned /\ OneMedia(fw.evt)) => Cardinality(PresentMediaKeys) <= 1

\* the payload of a video and location event: one media key, and a raw key
C23_Witness ==
    /\ PayloadReturned
    /\ fw.evt.Message = {"videoMessage", "locationMessage"}
    /\ PresentMediaKeys = {"video"}
    /\ "location" \in DOMAIN fw.payload

\* C24: every returned payload has the key SenderNumber, and its message
\* has the keys ID, MessageOrigin and RepliedId, also when the sender string
\* of the event is empty.
C24_AlwaysPopulated ==
    PayloadReturned =>
        /\ "SenderNumber" \in DOMAIN fw.payload
        /\ "message" \in DOMAIN fw.payload
        /\ {"ID", "MessageOrigin", "RepliedId"} \subseteq DOMAIN fw.payload["message"]

\* createPayload was given a group chat event whose GetGroupName call failed,
\* and nothing else failed
GroupLookupFailed ==
    /\ fw.pc \notin {"none", "createPayload"}
    /\ ~PayloadFails
    /\ fw.env.IsGroup
    /\ fw.env.lookup.err # "nil"

\* C25: for a group chat event whose group-name lookup fails, createPayload
\* returns no error and a payload with IsGroup = TRUE and no GroupName, and
\* forwardToWebhook goes on to submit it: it returns only after a
\* SubmitWebhook call when a URL is configured.
C25_LookupFailureIsSwallowed ==
    GroupLookupFailed =>
        /\ "IsGroup" \in DOMAIN fw.payload
        /\ fw.payload["IsGroup"] = TRUE
        /\ "GroupName" \notin DOMAIN fw.payload
        /\ fw.submitted = <<>> => fw.err = "nil"
        /\ (fw.pc = "return" /\ Len(WhatsappWebhook) > 0) => Len(fw.submitted) >= 1

\* a group event whose lookup failed, submitted to both configured URLs
C25_Witness ==
    /\ GroupLookupFailed
    /\ fw.pc = "return"
    /\ Len(fw.submitted) = 2
    /\ fw.err = "nil"

(***************************************************************************)
(* Properties of the handler: duplicates, ordering and validation          *)
(***************************************************************************)
\* C26: a request answered "call rejected (already processed)" has a first
\* observer of its key whose RejectCall has succeeded or has not returned
\* yet: none that was the reason of the answer has failed.
C26_ProcessedMeansRejected ==
    \A r \in Requests :
        response[r] = "call rejected (already processed)" =>
            \E q \in Requests :
                /\ guard[q] = "first"
                /\ KeyOf(q) = KeyOf(r)
                /\ rejected[q] \in {"none", "ok"}

\* the responses of the checks before the guard
ValidationErrors ==
    {"Invalid request body", "call_id and Phone are required",
     "WhatsApp client not initialized", "Invalid Phone"}

\* the webhook goroutine of the request was started, or has submitted
Delivering(r) == delivery[r] # "none" \/ submitted[r] # <<>>

\* C27: the call_received webhook of a request is submitted only after the
\* RejectCall of that request returned success: the webhook goroutine is
\* started in the step in which RejectCall returns success and submits only
\* once started; a request whose RejectCall failed, a duplicate and a
\* request that failed validation have no delivery.
C27_DeliveryFollowsReject ==
    /\ [](\A r \in Requests :
            /\ Delivering(r) => (guard[r] = "first" /\ rejected[r] = "ok")
            /\ (\/ rejected[r] = "err"
                \/ guard[r] = "duplicate"
                \/ response[r] \in ValidationErrors) => ~Delivering(r))
    /\ [][\A r \in Requests :
            /\ (delivery[r] = "none" /\ delivery'[r] # "none")
                  => (pc[r] = "reject" /\ rejected'[r] = "ok")
            /\ submitted'[r] # submitted[r] => delivery[r] = "started"]_vars

\* one request was rejected and its webhook submitted to both URLs, another
\* failed to reject and a third failed validation, both without delivery
C27_Witness ==
    \E r, q, v \in Requests :
        /\ rejected[r] = "ok" /\ Len(submitted[r]) = 2
        /\ rejected[q] = "err" /\ pc[q] = "done" /\ ~Delivering(q)
        /\ response[v] \in ValidationErrors /\ ~Delivering(v)

\* the request failed one of the checks before the guard
FailedValidation(r) == response[r] \in ValidationErrors

\* C28: a request that fails before the guard changes nothing: the step in
\* which it is answered leaves the map, the eviction goroutines, the
\* RejectCall results and the deliveries as they were, and it never has a
\* guard result, an eviction goroutine, a RejectCall or a delivery of its
\* own; a request that got to the guard has a non-empty call_id and a Phone
\* that parses.
C28_FailedValidationChangesNothing ==
    /\ [][\A r \in Requests :
            (pc[r] = "idle" /\ pc'[r] = "done")
                => /\ FailedValidation(r)'
                   /\ callWebhookCache' = callWebhookCache
                   /\ live' = live
                   /\ timer' = timer
                   /\ sleeping' = sleeping
                   /\ rejected' = rejected
                   /\ delivery' = delivery
                   /\ submitted' = submitted]_vars
    /\ [](\A r \in Requests :
            /\ FailedValidation(r)
                  => /\ guard[r] = "none"
                     /\ timer[r] = "none"
                     /\ \A i \in 1..Len(sleeping) : sleeping[i] # r
                     /\ rejected[r] = "none"
                     /\ ~Delivering(r)
            /\ guard[r] # "none"
                  => /\ request[r].CallID # ""
                     /\ request[r].Phone # ""
                     /\ ~ParseJIDFails(request[r].Phone))

\* a request is answered "Invalid Phone" while the key of an earlier request
\* is cached and its eviction goroutine sleeps
C28_Witness ==
    \E r \in Requests :
        /\ response[r] = "Invalid Phone"
        /\ callWebhookCache # {}
        /\ sleeping # <<>>

\* C29: a request is treated as a duplicate only of a request with the same
\* call_id and the same Phone: some other request with that pair was first
\* observer of the key.
C29_DuplicateOfSamePair ==
    \A r \in Requests :
        guard[r] = "duplicate" =>
            \E q \in Requests :
                /\ q # r
                /\ guard[q] = "first"
                /\ request[q] = request[r]

(***************************************************************************)
(* Properties of SubmitWebhook: the request body                            *)
(***************************************************************************)
\* C30: every attempt of SubmitWebhook, the first and each retry, is made
\* with a request whose body holds the whole serialized payload, the bytes
\* the signature was computed over: none is made with a body a previous
\* attempt has consumed.
C30_EveryAttemptHoldsPayload ==
    \A i \in 1..Len(sw.events) :
        sw.events[i].ev = "attempt" => sw.events[i].body = "full"

====
